---- MODULE Spec2Model ----
(***************************************************************************)
(* Model of fetch_data.py: the bounded-retry fetch of one year             *)
(* (fetch_year), the sequential driver (main) and the aggregation          *)
(* pipeline that main runs on the fetched series.                          *)
(*                                                                         *)
(* Temperatures are integers in tenths of a degree Fahrenheit (the         *)
(* provider reports one decimal), so round(x, 1) of a quotient is the      *)
(* nearest integer number of tenths.  Python's None is the empty tuple     *)
(* and a present value v is the one-element tuple <<v>>.                   *)
(***************************************************************************)
EXTENDS Integers, Sequences, FiniteSets, TLC

VARIABLES
    pc,            \* position of main
    year,          \* loop variable of the historical loop / year being fetched
    fy,            \* fetch_year frame: "idle", "running", "returned"
    attempt,       \* fetch_year: loop variable of range(3)
    resp,          \* fetch_year: outcome of the latest requests.get ("none" before the first)
    requests,      \* fetch_year: requests.get calls issued by the current call
    slept,         \* fetch_year: the latest time.sleep of the current call, as the pair
                   \* (attempts made before it, seconds); None before the first
    ret,           \* fetch_year: returned value (None or <<series>>)
    historical,    \* main: insertion-ordered dict year -> series, as a sequence of items
    all_daily,     \* main: MM-DD -> {highs, lows}
    current_data,  \* main: None or <<series>>
    output,        \* main: the assembled document (None before step 10)
    writes,        \* number of times data.js was written
    data_js,       \* contents of data.js (None when never written)
    exit_code      \* None while running, <<0>> normal end, <<1>> sys.exit(1)

vars == <<pc, year, fy, attempt, resp, requests, slept, ret, historical, all_daily,
          current_data, output, writes, data_js, exit_code>>

None == <<>>
Some(v) == <<v>>

-----------------------------------------------------------------------------
(* Configuration *)

\* Number of historical years of the model (the source has 30: 1996-2025).
NumHistYears == 5
HIST_START_YEAR == 1996
HIST_END_YEAR == HIST_START_YEAR + NumHistYears - 1
\* Trailing window of the model (the source has 10).
TRAILING_YEARS == 2
CURRENT_YEAR == HIST_END_YEAR + 1

\* Tenths per degree: every round(..., 1) of the source keeps one decimal.
Scale == 10
MaxAttempts == 3
RateLimitStep == 5
FlatDelay == 2
MinEnvelopeSamples == 5
RecordHighInit == -999 * Scale
RecordLowInit == 999 * Scale
Freezing == 32 * Scale
Hot == 90 * Scale

Months == 1..12

-----------------------------------------------------------------------------
(* Provider data *)

IsLeap(y) == (y % 4 = 0 /\ y % 100 # 0) \/ y % 400 = 0

\* The days of a year the model samples, in calendar order.
SampleDays == <<<<1, 1>>, <<1, 2>>, <<1, 3>>, <<1, 4>>, <<1, 5>>, <<2, 28>>, <<3, 1>>>>
LeapDay == <<2, 29>>
MDKeys == {SampleDays[i] : i \in 1..Len(SampleDays)} \cup {LeapDay}

\* A provider response body: parallel sequences over consecutive sampled days
\* of year y starting at January 1st; cells are <<md, high, low>>.
Series(y, cells) ==
    [dates |-> [i \in 1..Len(cells) |-> <<y, cells[i][1][1], cells[i][1][2]>>],
     high  |-> [i \in 1..Len(cells) |-> cells[i][2]],
     low   |-> [i \in 1..Len(cells) |-> cells[i][3]]]

\* A year-dependent shift of the complete year, so that years differ.
YearShift(y) == (((y - 1990) * 7) % 5) * 3

\* A full year with every value present but March 1st; Feb 29 in leap years.
CompleteYear(y) ==
    LET d == YearShift(y)
    IN  << <<<<1,1>>, Some(320 + d), Some(200 - d)>>, <<<<1,2>>, Some(900 - d), Some(325 - d)>>,
           <<<<1,3>>, Some(455 + d), Some(-50 + d)>>, <<<<1,4>>, Some(500), Some(300)>>,
           <<<<1,5>>, Some(610 - d), Some(318 + d)>>, <<<<2,28>>, Some(500 + d), Some(300)>> >>
        \o (IF IsLeap(y) THEN << <<LeapDay, Some(611), Some(307)>> >> ELSE << >>)
        \o << <<<<3,1>>, None, None>> >>

\* A year with gaps: days with neither value, with a high only, with a low only.
GappyYear(y) ==
    << <<<<1,1>>, Some(325), Some(310)>>, <<<<1,2>>, None, None>>,
       <<<<1,3>>, Some(900), Some(-50)>>, <<<<1,4>>, Some(950), None>>,
       <<<<1,5>>, None, Some(-120)>>, <<<<2,28>>, Some(700), None>> >>
    \o (IF IsLeap(y) THEN << <<LeapDay, None, None>> >> ELSE << >>)
    \o << <<<<3,1>>, Some(480), None>> >>

\* A year in which every value is absent.
AbsentYear(y) ==
    << <<<<1,1>>, None, None>>, <<<<1,2>>, None, None>>, <<<<1,3>>, None, None>>,
       <<<<1,4>>, None, None>>, <<<<1,5>>, None, None>>, <<<<2,28>>, None, None>> >>
    \o (IF IsLeap(y) THEN << <<LeapDay, None, None>> >> ELSE << >>)
    \o << <<<<3,1>>, None, None>> >>

\* Full-year bodies the provider may return for a historical year.
HistBodies(y) ==
    { Series(y, CompleteYear(y)), Series(y, GappyYear(y)), Series(y, AbsentYear(y)) }

\* Bodies for the current year: January 1st up to today.
CurrentBodies(y) ==
    { Series(y, << <<<<1,1>>, Some(500), Some(200)>>, <<<<1,2>>, Some(900), Some(320)>>,
                   <<<<1,3>>, Some(899), Some(330)>>, <<<<1,4>>, Some(950), None>>,
                   <<<<1,5>>, None, Some(310)>> >>),
      Series(y, << >>),
      Series(y, << <<<<1,1>>, None, None>>, <<<<1,2>>, None, None>> >>),
      Series(y, << <<<<1,1>>, Some(321), Some(321)>>, <<<<1,2>>, Some(900), Some(-50)>>,
                   <<<<1,3>>, Some(900), Some(-50)>>, <<<<1,4>>, Some(400), Some(100)>>,
                   <<<<1,5>>, Some(455), Some(319)>>, <<<<2,28>>, Some(700), Some(250)>>,
                   <<<<3,1>>, Some(650), None>> >>) }

Bodies(y) == IF y = CURRENT_YEAR THEN CurrentBodies(y) ELSE HistBodies(y)

-----------------------------------------------------------------------------
(* Helpers of the source *)

md_key(date) == <<date[2], date[3]>>
month_num(date) == date[2]

RECURSIVE SumSeq(_)
SumSeq(s) == IF s = <<>> THEN 0 ELSE Head(s) + SumSeq(Tail(s))

\* round(num / den, 1) in tenths: the nearest integer, a tie going to the even
\* one as Python rounds a tie it can represent exactly (the binary
\* representation error of other ties is not modelled).
round_1(num, den) ==
    LET q == num \div den
        r == num % den
    IN  IF 2 * r < den THEN q
        ELSE IF 2 * r > den THEN q + 1
        ELSE IF q % 2 = 0 THEN q ELSE q + 1

\* round(sum(xs) / len(xs), 1)
Mean1(xs) == round_1(SumSeq(xs), Len(xs))

\* The sort left out.
sortedMissing(xs) == xs

sorted(xs) == SortSeq(xs, LAMBDA a, b : a < b)

Max2(a, b) == IF a >= b THEN a ELSE b
Min2(a, b) == IF a <= b THEN a ELSE b

EmptyPool == [highs |-> <<>>, lows |-> <<>>]

\* The pooling loop over one series: a day counts when both values are present.
RECURSIVE PoolDays(_, _, _)
PoolDays(daily, data, i) ==
    IF i > Len(data.dates) THEN daily
    ELSE LET h == data.high[i]
             l == data.low[i]
             key == md_key(data.dates[i])
         IN  IF h # None /\ l # None
             THEN PoolDays([daily EXCEPT ![key] =
                               [highs |-> Append(@.highs, h[1]),
                                lows  |-> Append(@.lows, l[1])]], data, i + 1)
             ELSE PoolDays(daily, data, i + 1)

-----------------------------------------------------------------------------
(* fetch_year *)

Init ==
    /\ pc = "hist_loop"
    /\ year = HIST_START_YEAR
    /\ fy = "idle"
    /\ attempt = 0
    /\ resp = "none"
    /\ requests = 0
    /\ slept = None
    /\ ret = None
    /\ historical = <<>>
    /\ all_daily = [k \in MDKeys |-> EmptyPool]
    /\ current_data = None
    /\ output = None
    /\ writes = 0
    /\ data_js = None
    /\ exit_code = None

mainVars == <<pc, year, historical, all_daily, current_data, output, writes, data_js, exit_code>>

InLoop == fy = "running" /\ attempt < MaxAttempts

\* Status 200: return the body.
AttemptOK ==
    /\ InLoop
    /\ \E body \in Bodies(year) :
          ret' = Some(body)
    /\ resp' = "200"
    /\ requests' = requests + 1
    /\ fy' = "returned"
    /\ UNCHANGED <<attempt, slept, mainVars>>

\* Status 429 or 503: sleep (attempt + 1) * 5 and go round.
RateLimitWait(a) == (a + 1) * RateLimitStep

AttemptRateLimited ==
    /\ InLoop
    /\ \E status \in {"429", "503"} : resp' = status
    /\ requests' = requests + 1
    /\ slept' = Some(<<attempt + 1, RateLimitWait(attempt)>>)
    /\ attempt' = attempt + 1
    /\ UNCHANGED <<fy, ret, mainVars>>

\* The sleep of a failure that is not a rate limit: 2s unless it was the last attempt.
FlatSleep(a, before) == IF a < MaxAttempts - 1 THEN Some(<<a + 1, FlatDelay>>) ELSE before

\* Any other status.
AttemptApiError ==
    /\ InLoop
    /\ resp' = "500"
    /\ requests' = requests + 1
    /\ slept' = FlatSleep(attempt, slept)
    /\ attempt' = attempt + 1
    /\ UNCHANGED <<fy, ret, mainVars>>

\* requests.exceptions.RequestException.
AttemptException ==
    /\ InLoop
    /\ resp' = "exception"
    /\ requests' = requests + 1
    /\ slept' = FlatSleep(attempt, slept)
    /\ attempt' = attempt + 1
    /\ UNCHANGED <<fy, ret, mainVars>>

\* The loop is exhausted: return None.
ReturnNone ==
    /\ fy = "running"
    /\ attempt >= MaxAttempts
    /\ ret' = None
    /\ fy' = "returned"
    /\ UNCHANGED <<attempt, resp, requests, slept, mainVars>>

\* A call of fetch_year: a fresh frame.
CallFrame ==
    /\ fy' = "running"
    /\ attempt' = 0
    /\ resp' = "none"
    /\ requests' = 0
    /\ slept' = None
    /\ ret' = None

\* The frame is gone once the caller has the result.
DropFrame ==
    /\ fy' = "idle"
    /\ attempt' = 0
    /\ resp' = "none"
    /\ requests' = 0
    /\ slept' = None
    /\ ret' = None

-----------------------------------------------------------------------------
(* main, steps 1 and 2 *)

HistCall ==
    /\ pc = "hist_loop"
    /\ fy = "idle"
    /\ year <= HIST_END_YEAR
    /\ CallFrame
    /\ pc' = "hist_fetch"
    /\ UNCHANGED <<year, historical, all_daily, current_data, output, writes, data_js, exit_code>>

\* The exit of a historical fetch that returned None, as a real bug would take it.
HistSkipExits ==
    /\ pc = "hist_fetch"
    /\ fy = "returned"
    /\ ret = None
    /\ exit_code' = Some(1)
    /\ pc' = "exited"
    /\ DropFrame
    /\ UNCHANGED <<year, historical, all_daily, current_data, output, writes, data_js>>

\* data is None: continue with the next year.
HistSkip ==
    /\ pc = "hist_fetch"
    /\ fy = "returned"
    /\ ret = None
    /\ year' = year + 1
    /\ pc' = "hist_loop"
    /\ DropFrame
    /\ UNCHANGED <<historical, all_daily, current_data, output, writes, data_js, exit_code>>

HistStore ==
    /\ pc = "hist_fetch"
    /\ fy = "returned"
    /\ ret # None
    /\ historical' = Append(historical, [yr |-> year, data |-> ret[1]])
    /\ all_daily' = PoolDays(all_daily, ret[1], 1)
    /\ year' = year + 1
    /\ pc' = "hist_loop"
    /\ DropFrame
    /\ UNCHANGED <<current_data, output, writes, data_js, exit_code>>

CurrentCall ==
    /\ pc = "hist_loop"
    /\ fy = "idle"
    /\ year > HIST_END_YEAR
    /\ year' = CURRENT_YEAR
    /\ CallFrame
    /\ pc' = "cur_fetch"
    /\ UNCHANGED <<historical, all_daily, current_data, output, writes, data_js, exit_code>>

\* current_data is None: sys.exit(1).
CurrentAbort ==
    /\ pc = "cur_fetch"
    /\ fy = "returned"
    /\ ret = None
    /\ exit_code' = Some(1)
    /\ pc' = "exited"
    /\ DropFrame
    /\ UNCHANGED <<year, historical, all_daily, current_data, output, writes, data_js>>

CurrentStore ==
    /\ pc = "cur_fetch"
    /\ fy = "returned"
    /\ ret # None
    /\ current_data' = ret
    /\ pc' = "aggregate"
    /\ DropFrame
    /\ UNCHANGED <<year, historical, all_daily, output, writes, data_js, exit_code>>

-----------------------------------------------------------------------------
(* main, steps 3 to 5: series per day of year *)

\* list.index
IndexOf(xs, x) == CHOOSE i \in 1..Len(xs) : xs[i] = x /\ \A j \in 1..(i - 1) : xs[j] # x

Contains(xs, x) == \E i \in 1..Len(xs) : xs[i] = x

\* list.insert(pos, x) with pos counted from 0
InsertAt(xs, pos, x) == SubSeq(xs, 1, pos) \o <<x>> \o SubSeq(xs, pos + 1, Len(xs))

\* Every date of the non-leap reference year, then Feb 29 after Feb 28.
base_dates ==
    IF Contains(SampleDays, LeapDay) THEN SampleDays
    ELSE InsertAt(SampleDays, IndexOf(SampleDays, <<2, 28>>), LeapDay)

\* The reduction of steps 3 and 4: the keys with samples and their means.
HasSamples(daily, md) == daily[md].highs # <<>> /\ daily[md].lows # <<>>

DailyMeans(daily) ==
    LET kept == SelectSeq(base_dates, LAMBDA md : HasSamples(daily, md))
    IN  [dates |-> kept,
         high  |-> [i \in 1..Len(kept) |-> Mean1(daily[kept[i]].highs)],
         low   |-> [i \in 1..Len(kept) |-> Mean1(daily[kept[i]].lows)]]

InHistorical(hist, y) == \E i \in 1..Len(hist) : hist[i].yr = y
HistoricalGet(hist, y) == hist[CHOOSE i \in 1..Len(hist) : hist[i].yr = y].data

\* The window taken one year too long.
TrailingFirstYearEarly == HIST_END_YEAR - TRAILING_YEARS

TrailingFirstYear == HIST_END_YEAR - TRAILING_YEARS + 1

\* The pooling loop of step 4 over range(HIST_END_YEAR - TRAILING_YEARS + 1, HIST_END_YEAR + 1).
RECURSIVE TrailingPool(_, _, _)
TrailingPool(daily, hist, y) ==
    IF y > HIST_END_YEAR THEN daily
    ELSE IF ~InHistorical(hist, y) THEN TrailingPool(daily, hist, y + 1)
    ELSE TrailingPool(PoolDays(daily, HistoricalGet(hist, y), 1), hist, y + 1)

trailing_daily(hist) == TrailingPool([k \in MDKeys |-> EmptyPool], hist, TrailingFirstYear)

\* int(n * p) for the fraction p = num / den, clamped as the source clamps it.
LowerIndex(n, num, den) == Max2(0, (n * num) \div den)
UpperIndex(n, num, den) == Min2(n - 1, (n * num) \div den)

\* xs[i] with i counted from 0
At(xs, i) == xs[i + 1]

MaxSeq(xs) == CHOOSE v \in {xs[i] : i \in 1..Len(xs)} : \A i \in 1..Len(xs) : xs[i] <= v
MinSeq(xs) == CHOOSE v \in {xs[i] : i \in 1..Len(xs)} : \A i \in 1..Len(xs) : v <= xs[i]

EnvelopeKept(daily, md) ==
    ~(Len(daily[md].highs) < MinEnvelopeSamples \/ Len(daily[md].lows) < MinEnvelopeSamples)

Envelope(daily) ==
    LET kept == SelectSeq(base_dates, LAMBDA md : EnvelopeKept(daily, md))
        highs(i) == sorted(daily[kept[i]].highs)
        lows(i) == sorted(daily[kept[i]].lows)
        D == 1..Len(kept)
    IN  [dates |-> kept,
         p10_high |-> [i \in D |-> round_1(At(highs(i), LowerIndex(Len(highs(i)), 10, 100)), 1)],
         p25_high |-> [i \in D |-> round_1(At(highs(i), LowerIndex(Len(highs(i)), 25, 100)), 1)],
         p75_high |-> [i \in D |-> round_1(At(highs(i), UpperIndex(Len(highs(i)), 75, 100)), 1)],
         p90_high |-> [i \in D |-> round_1(At(highs(i), UpperIndex(Len(highs(i)), 90, 100)), 1)],
         p10_low |-> [i \in D |-> round_1(At(lows(i), LowerIndex(Len(lows(i)), 10, 100)), 1)],
         p25_low |-> [i \in D |-> round_1(At(lows(i), LowerIndex(Len(lows(i)), 25, 100)), 1)],
         p75_low |-> [i \in D |-> round_1(At(lows(i), UpperIndex(Len(lows(i)), 75, 100)), 1)],
         p90_low |-> [i \in D |-> round_1(At(lows(i), UpperIndex(Len(lows(i)), 90, 100)), 1)],
         record_high |-> [i \in D |-> round_1(MaxSeq(highs(i)), 1)],
         record_low |-> [i \in D |-> round_1(MinSeq(lows(i)), 1)]]

-----------------------------------------------------------------------------
(* main, steps 6 and 7: monthly statistics and anomalies *)

MONTH_NAMES == <<"January", "February", "March", "April", "May", "June",
                 "July", "August", "September", "October", "November", "December">>

\* name[:3] for the names of MONTH_NAMES
Abbrev == [January |-> "Jan", February |-> "Feb", March |-> "Mar", April |-> "Apr",
           May |-> "May", June |-> "Jun", July |-> "Jul", August |-> "Aug",
           September |-> "Sep", October |-> "Oct", November |-> "Nov", December |-> "Dec"]

\* Highs and lows pooled each on its own test.
RECURSIVE MonthPoolDaysApart(_, _, _)
MonthPoolDaysApart(pool, data, i) ==
    IF i > Len(data.dates) THEN pool
    ELSE LET h == data.high[i]
             l == data.low[i]
             m == month_num(data.dates[i])
         IN  MonthPoolDaysApart([pool EXCEPT ![m] =
                 [highs |-> IF h # None THEN Append(@.highs, h[1]) ELSE @.highs,
                  lows  |-> IF l # None THEN Append(@.lows, l[1]) ELSE @.lows]], data, i + 1)

\* The inner loop that pools one series per month number.
RECURSIVE MonthPoolDays(_, _, _)
MonthPoolDays(pool, data, i) ==
    IF i > Len(data.dates) THEN pool
    ELSE LET h == data.high[i]
             l == data.low[i]
             m == month_num(data.dates[i])
         IN  IF h # None /\ l # None
             THEN MonthPoolDays([pool EXCEPT ![m] =
                                    [highs |-> Append(@.highs, h[1]),
                                     lows  |-> Append(@.lows, l[1])]], data, i + 1)
             ELSE MonthPoolDays(pool, data, i + 1)

RECURSIVE MonthPoolItems(_, _, _)
MonthPoolItems(pool, hist, k) ==
    IF k > Len(hist) THEN pool
    ELSE MonthPoolItems(MonthPoolDays(pool, hist[k].data, 1), hist, k + 1)

monthly_hist(hist) == MonthPoolItems([m \in Months |-> EmptyPool], hist, 1)

current_monthly(cur) == MonthPoolDays([m \in Months |-> EmptyPool], cur, 1)

RecordsInit ==
    [record_high |-> RecordHighInit, record_high_year |-> None,
     record_low  |-> RecordLowInit,  record_low_year  |-> None]

\* A missing value read as 0.
RecordDayNoneAsZero(r, yr, h, l) ==
    LET hv == IF h = None THEN 0 ELSE h[1]
        lv == IF l = None THEN 0 ELSE l[1]
        r1 == IF hv > r.record_high
              THEN [r EXCEPT !.record_high = hv, !.record_high_year = Some(yr)]
              ELSE r
    IN  IF lv < r1.record_low
        THEN [r1 EXCEPT !.record_low = lv, !.record_low_year = Some(yr)]
        ELSE r1

\* One day of the record scan: the two independent tests of the source.
RecordDay(r, yr, h, l) ==
    LET r1 == IF h # None /\ h[1] > r.record_high
              THEN [r EXCEPT !.record_high = h[1], !.record_high_year = Some(yr)]
              ELSE r
    IN  IF l # None /\ l[1] < r1.record_low
        THEN [r1 EXCEPT !.record_low = l[1], !.record_low_year = Some(yr)]
        ELSE r1

RECURSIVE RecordDays(_, _, _, _)
RecordDays(recs, yr, data, i) ==
    IF i > Len(data.dates) THEN recs
    ELSE LET m == month_num(data.dates[i])
         IN  RecordDays([recs EXCEPT ![m] = RecordDay(@, yr, data.high[i], data.low[i])],
                        yr, data, i + 1)

RECURSIVE RecordItems(_, _, _)
RecordItems(recs, hist, k) ==
    IF k > Len(hist) THEN recs
    ELSE RecordItems(RecordDays(recs, hist[k].yr, hist[k].data, 1), hist, k + 1)

monthly_records(hist) == RecordItems([m \in Months |-> RecordsInit], hist, 1)

\* round(sum(xs) / len(xs), 1) if xs else None
MeanOrNone(xs) == IF xs # <<>> THEN Some(Mean1(xs)) ELSE None

\* round(a - b, 1) if a is not None and b is not None else None
Departure(a, b) == IF a # None /\ b # None THEN Some(round_1(a[1] - b[1], 1)) ELSE None

\* One iteration of the loop over range(1, 13): mh, mc and rec are the
\* entries of monthly_hist, current_monthly and monthly_records for the month.
MonthlyStat(mh, mc, rec) ==
    LET normal_high == MeanOrNone(mh.highs)
        normal_low == MeanOrNone(mh.lows)
        avg_high == MeanOrNone(mc.highs)
        avg_low == MeanOrNone(mc.lows)
    IN  [avg_high |-> avg_high,
         avg_low |-> avg_low,
         normal_high |-> normal_high,
         normal_low |-> normal_low,
         record_high |-> IF rec.record_high > RecordHighInit THEN Some(rec.record_high) ELSE None,
         record_high_year |-> rec.record_high_year,
         record_low |-> IF rec.record_low < RecordLowInit THEN Some(rec.record_low) ELSE None,
         record_low_year |-> rec.record_low_year,
         departure_high |-> Departure(avg_high, normal_high),
         departure_low |-> Departure(avg_low, normal_low)]

MonthNameSet == {MONTH_NAMES[m] : m \in Months}
MonthOf(name) == CHOOSE m \in Months : MONTH_NAMES[m] = name

Monthly(hist, cur) ==
    LET mh == monthly_hist(hist)
        mc == current_monthly(cur)
        recs == monthly_records(hist)
    IN  [name \in MonthNameSet |->
            MonthlyStat(mh[MonthOf(name)], mc[MonthOf(name)], recs[MonthOf(name)])]

Anomalies(monthly) ==
    LET kept == SelectSeq(MONTH_NAMES, LAMBDA name : monthly[name].departure_high # None)
        D == 1..Len(kept)
    IN  [months |-> [i \in D |-> Abbrev[kept[i]]],
         high_departure |-> [i \in D |-> monthly[kept[i]].departure_high],
         low_departure  |-> [i \in D |-> monthly[kept[i]].departure_low]]

-----------------------------------------------------------------------------
(* main, step 8: summary *)

BothPresent(data, i) == data.high[i] # None /\ data.low[i] # None

\* The backward scan for the most recent day with data.
RECURSIVE TodayScan(_, _)
TodayScan(data, i) ==
    IF i < 1 THEN [today_high |-> None, today_low |-> None, today_date |-> None]
    ELSE IF BothPresent(data, i)
         THEN [today_high |-> data.high[i], today_low |-> data.low[i],
               today_date |-> Some(data.dates[i])]
         ELSE TodayScan(data, i - 1)

\* [v for v in xs if v is not None]
Present(xs) ==
    LET kept == SelectSeq(xs, LAMBDA v : v # None)
    IN  [i \in 1..Len(kept) |-> kept[i][1]]

valid_highs(data) == Present(data.high)
valid_lows(data) == Present(data.low)

ytd_avg_high(data) == MeanOrNone(valid_highs(data))

\* The normal highs of the dates of the current year that have a normal.
ytd_normal_highs(data, normals) ==
    LET kept == SelectSeq(data.dates, LAMBDA date : Contains(normals.dates, md_key(date)))
    IN  [i \in 1..Len(kept) |-> normals.high[IndexOf(normals.dates, md_key(kept[i]))]]

RECURSIVE HottestScan(_, _, _)
HottestScan(best, data, i) ==
    IF i > Len(data.high) THEN best
    ELSE LET h == data.high[i]
         IN  IF h # None /\ h[1] > best.temp
             THEN HottestScan([temp |-> h[1], date |-> Some(data.dates[i])], data, i + 1)
             ELSE HottestScan(best, data, i + 1)

RECURSIVE ColdestScan(_, _, _)
ColdestScan(best, data, i) ==
    IF i > Len(data.low) THEN best
    ELSE LET l == data.low[i]
         IN  IF l # None /\ l[1] < best.temp
             THEN ColdestScan([temp |-> l[1], date |-> Some(data.dates[i])], data, i + 1)
             ELSE ColdestScan(best, data, i + 1)

\* The strict comparison in place of the inclusive one.
days_below_freezingStrict(data) ==
    Len(SelectSeq(data.low, LAMBDA l : l # None /\ l[1] < Freezing))

\* sum(1 for l in data["low"] if l is not None and l <= 32)
days_below_freezing(data) ==
    Len(SelectSeq(data.low, LAMBDA l : l # None /\ l[1] <= Freezing))

\* sum(1 for h in data["high"] if h is not None and h >= 90)
days_above_90(data) ==
    Len(SelectSeq(data.high, LAMBDA h : h # None /\ h[1] >= Hot))

Summary(data, normals) ==
    LET today == TodayScan(data, Len(data.dates))
        hottest == HottestScan([temp |-> RecordHighInit, date |-> None], data, 1)
        coldest == ColdestScan([temp |-> RecordLowInit, date |-> None], data, 1)
    IN  [today_high |-> today.today_high,
         today_low |-> today.today_low,
         today_date |-> today.today_date,
         ytd_avg_high |-> ytd_avg_high(data),
         ytd_normal_avg_high |-> MeanOrNone(ytd_normal_highs(data, normals)),
         hottest_day |-> [date |-> hottest.date,
                          temp |-> IF hottest.temp > RecordHighInit THEN Some(hottest.temp) ELSE None],
         coldest_day |-> [date |-> coldest.date,
                          temp |-> IF coldest.temp < RecordLowInit THEN Some(coldest.temp) ELSE None],
         days_below_freezing |-> days_below_freezing(data),
         days_above_90 |-> days_above_90(data)]

-----------------------------------------------------------------------------
(* main, steps 9 and 10 *)

\* [round(v, 1) if v is not None else None for v in xs]
RoundAll(xs) == [i \in 1..Len(xs) |-> IF xs[i] # None THEN Some(round_1(xs[i][1], 1)) ELSE None]

Rounded(data) == [dates |-> data.dates, high |-> RoundAll(data.high), low |-> RoundAll(data.low)]

hist_output(hist) == [k \in 1..Len(hist) |-> [yr |-> hist[k].yr, data |-> Rounded(hist[k].data)]]

Document(hist, daily, cur) ==
    LET normals == DailyMeans(daily)
        monthly == Monthly(hist, cur)
    IN  [year |-> CURRENT_YEAR,
         current_year |-> Rounded(cur),
         trailing_avg |-> DailyMeans(trailing_daily(hist)),
         normals |-> normals,
         historical_envelope |-> Envelope(daily),
         historical_years |-> hist_output(hist),
         monthly |-> monthly,
         anomalies |-> Anomalies(monthly),
         summary |-> Summary(cur, normals)]

\* Steps 3 to 9 and the assembly of the output dict.
Aggregate ==
    /\ pc = "aggregate"
    /\ output' = Some(Document(historical, all_daily, current_data[1]))
    /\ pc' = "write"
    /\ UNCHANGED <<year, fy, attempt, resp, requests, slept, ret, historical, all_daily,
                   current_data, writes, data_js, exit_code>>

\* json.dumps and the write of data.js, then the normal end of the process.
WriteDocument ==
    /\ pc = "write"
    /\ data_js' = output
    /\ writes' = writes + 1
    /\ exit_code' = Some(0)
    /\ pc' = "done"
    /\ UNCHANGED <<year, fy, attempt, resp, requests, slept, ret, historical, all_daily,
                   current_data, output>>

Next ==
    \/ HistCall
    \/ AttemptOK
    \/ AttemptRateLimited
    \/ AttemptApiError
    \/ AttemptException
    \/ ReturnNone
    \/ HistSkip
    \/ HistStore
    \/ CurrentCall
    \/ CurrentAbort
    \/ CurrentStore
    \/ Aggregate
    \/ WriteDocument

Spec == Init /\ [][Next]_vars

-----------------------------------------------------------------------------
(* Properties *)

HistoricalFetchFailed == pc = "hist_fetch" /\ fy = "returned" /\ ret = None
CurrentFetchFailed == pc = "cur_fetch" /\ fy = "returned" /\ ret = None

C1_State ==
    /\ writes <= 1
    /\ writes = 1 => current_data # None /\ data_js # None /\ data_js = output
    /\ writes = 0 => data_js = None
    /\ exit_code = Some(1) => writes = 0 /\ current_data = None /\ year = CURRENT_YEAR
    /\ year <= HIST_END_YEAR => exit_code = None /\ writes = 0

C1_Step ==
    /\ HistoricalFetchFailed =>
          /\ pc' = "hist_loop" /\ year' = year + 1 /\ exit_code' = None
          /\ historical' = historical /\ all_daily' = all_daily
    /\ CurrentFetchFailed => exit_code' = Some(1) /\ writes' = 0 /\ data_js' = None
    /\ writes' # writes => writes = 0 /\ current_data # None
    /\ exit_code # None => UNCHANGED <<writes, data_js>>

\* C1: a historical year whose fetch returns no data is skipped and the run goes
\* on to the next year; a current-year fetch that returns no data ends the run
\* with exit code 1 and data.js unwritten; data.js is written at most once, and
\* only after the current-year fetch has returned data.
C1_FailureHandling == [](C1_State) /\ [][C1_Step]_vars

\* A run that skipped a historical year and still wrote the document.
C1_Witness == pc = "done" /\ writes = 1 /\ Len(historical) < NumHistYears /\ Len(historical) > 0

RateLimitedResp == resp \in {"429", "503"}
OtherFailureResp == resp \in {"500", "exception"}

\* At most 3 requests; a 200 returns its body at once; None exactly after 3 failures.
C2_Attempts ==
    /\ requests <= MaxAttempts
    /\ fy = "idle" => requests = 0
    /\ fy = "running" => requests = attempt /\ resp # "200"
    /\ fy = "returned" /\ ret # None => resp = "200" /\ requests = attempt + 1
    /\ fy = "returned" => (ret = None <=> (requests = MaxAttempts /\ resp # "200"))

\* The delay that follows each failure.
C2_Delays ==
    /\ slept # None =>
          /\ slept[1][1] \in 1..requests
          /\ slept[1][2] \in {FlatDelay, RateLimitStep * slept[1][1]}
    /\ fy # "idle" /\ RateLimitedResp => slept = Some(<<requests, RateLimitStep * requests>>)
    /\ fy # "idle" /\ OtherFailureResp /\ requests < MaxAttempts =>
          slept = Some(<<requests, FlatDelay>>)
    /\ fy # "idle" /\ requests <= 1 /\ resp \in {"none", "200"} => slept = None

\* A sleep is between two attempts when another request follows it.
C2_OnlyBetweenAttempts == slept # None => slept[1][1] < MaxAttempts

\* C2: fetch_year issues at most 3 requests, returns the body of the first 200
\* without a further request, returns None exactly when 3 attempts failed;
\* a 429/503 is followed by a delay of 5s, 10s, 15s by attempt and any other
\* failure by 2s, and every delay lies between two attempts.
C2_BoundedRetry == C2_Attempts /\ C2_Delays /\ C2_OnlyBetweenAttempts

\* The part of C2 the code satisfies.
C2_Core == C2_Attempts /\ C2_Delays

-----------------------------------------------------------------------------
(* The fetched observations, read off the stored series *)

HistYears == HIST_START_YEAR..HIST_END_YEAR
LastYears == {y \in HistYears : y > HIST_END_YEAR - TRAILING_YEARS}

\* The valid days (both values present) of the stored years among yrs, as
\* <<item, day>> positions.
ValidPoints(yrs) ==
    UNION { { <<k, i>> : i \in { j \in 1..Len(historical[k].data.dates) :
                                    /\ historical[k].data.high[j] # None
                                    /\ historical[k].data.low[j] # None } }
            : k \in { n \in 1..Len(historical) : historical[n].yr \in yrs } }

DateAt(p) == historical[p[1]].data.dates[p[2]]
HighAt(p) == historical[p[1]].data.high[p[2]][1]
LowAt(p) == historical[p[1]].data.low[p[2]][1]
YearAt(p) == historical[p[1]].yr

PointsOfDay(yrs, md) == { p \in ValidPoints(yrs) : <<DateAt(p)[2], DateAt(p)[3]>> = md }
PointsOfMonth(m) == { p \in ValidPoints(HistYears) : DateAt(p)[2] = m }

RECURSIVE SumHighs(_)
SumHighs(P) == IF P = {} THEN 0 ELSE LET p == CHOOSE q \in P : TRUE IN HighAt(p) + SumHighs(P \ {p})
RECURSIVE SumLows(_)
SumLows(P) == IF P = {} THEN 0 ELSE LET p == CHOOSE q \in P : TRUE IN LowAt(p) + SumLows(P \ {p})

Abs(x) == IF x < 0 THEN -x ELSE x

\* r is total / n rounded to the nearest tenth.
IsRoundedMean(r, total, n) == 2 * Abs(r * n - total) <= n

Positions(xs, x) == { i \in 1..Len(xs) : xs[i] = x }

IsMeanSeries(series, yrs) ==
    /\ Len(series.high) = Len(series.dates)
    /\ Len(series.low) = Len(series.dates)
    /\ \A md \in MDKeys :
          LET P == PointsOfDay(yrs, md)
              at == Positions(series.dates, md)
          IN  IF P = {} THEN at = {}
              ELSE /\ Cardinality(at) = 1
                   /\ \A i \in at :
                         /\ IsRoundedMean(series.high[i], SumHighs(P), Cardinality(P))
                         /\ IsRoundedMean(series.low[i], SumLows(P), Cardinality(P))
    /\ \A i \in 1..Len(series.dates) : series.dates[i] \in MDKeys

\* C3: a month-day key is in normals (over all fetched historical years) and in
\* trailing_avg (over the fetched years among the last TRAILING_YEARS) exactly
\* when the contributing years hold a valid day with that key, and its high and
\* low are then the means of those valid highs and lows rounded to one decimal.
C3_DailyMeans ==
    output # None =>
        /\ IsMeanSeries(output[1].normals, HistYears)
        /\ IsMeanSeries(output[1].trailing_avg, LastYears)

\* Feb 29 has a normal but no trailing average, March 1st has neither, and
\* January 1st is the mean of at least three years.
C3_Witness ==
    /\ output # None
    /\ Contains(output[1].normals.dates, LeapDay)
    /\ ~Contains(output[1].trailing_avg.dates, LeapDay)
    /\ ~Contains(output[1].normals.dates, <<3, 1>>)
    /\ Cardinality(PointsOfDay(HistYears, <<1, 1>>)) >= 3
    /\ Cardinality(PointsOfDay(LastYears, <<1, 1>>)) = 1

-----------------------------------------------------------------------------
\* clamp(floor(n * num / den), 0, n - 1)
ClampedRank(n, num, den) == Max2(0, Min2(n - 1, (n * num) \div den))

\* v is the element at index idx (from 0) of the ascending order of the values.
HighAtRank(v, P, idx) ==
    /\ Cardinality({ p \in P : HighAt(p) < v }) <= idx
    /\ idx < Cardinality({ p \in P : HighAt(p) <= v })
LowAtRank(v, P, idx) ==
    /\ Cardinality({ p \in P : LowAt(p) < v }) <= idx
    /\ idx < Cardinality({ p \in P : LowAt(p) <= v })

EnvelopeFields == {"dates", "p10_high", "p25_high", "p75_high", "p90_high",
                   "p10_low", "p25_low", "p75_low", "p90_low", "record_high", "record_low"}

EnvelopeDayOK(e, i) ==
    LET P == PointsOfDay(HistYears, e.dates[i])
        n == Cardinality(P)
    IN  /\ n >= MinEnvelopeSamples
        /\ e.p10_high[i] <= e.p25_high[i]
        /\ e.p25_high[i] <= e.p75_high[i]
        /\ e.p75_high[i] <= e.p90_high[i]
        /\ e.p90_high[i] <= e.record_high[i]
        /\ e.record_low[i] <= e.p10_low[i]
        /\ e.p10_low[i] <= e.p25_low[i]
        /\ e.p25_low[i] <= e.p75_low[i]
        /\ e.p75_low[i] <= e.p90_low[i]
        /\ HighAtRank(e.p10_high[i], P, ClampedRank(n, 10, 100))
        /\ HighAtRank(e.p25_high[i], P, ClampedRank(n, 25, 100))
        /\ HighAtRank(e.p75_high[i], P, ClampedRank(n, 75, 100))
        /\ HighAtRank(e.p90_high[i], P, ClampedRank(n, 90, 100))
        /\ LowAtRank(e.p10_low[i], P, ClampedRank(n, 10, 100))
        /\ LowAtRank(e.p25_low[i], P, ClampedRank(n, 25, 100))
        /\ LowAtRank(e.p75_low[i], P, ClampedRank(n, 75, 100))
        /\ LowAtRank(e.p90_low[i], P, ClampedRank(n, 90, 100))
        /\ HighAtRank(e.record_high[i], P, n - 1)
        /\ LowAtRank(e.record_low[i], P, 0)

\* C4: every day of historical_envelope has its percentiles in ascending order
\* below record_high and above record_low, each percentile is the element at
\* index clamp(floor(n * p), 0, n - 1) of the sorted pooled samples, and a key
\* with fewer than 5 pooled samples is not in the envelope.
C4_Envelope ==
    output # None =>
        LET e == output[1].historical_envelope
        IN  /\ \A f \in EnvelopeFields : Len(e[f]) = Len(e.dates)
            /\ \A i \in 1..Len(e.dates) : EnvelopeDayOK(e, i)

\* An envelope day with distinct percentiles, while a day with 1 to 4 samples is left out.
C4_Witness ==
    /\ output # None
    /\ LET e == output[1].historical_envelope
       IN  /\ \E i \in 1..Len(e.dates) :
                 /\ e.p10_high[i] < e.p25_high[i]
                 /\ e.p25_high[i] < e.p75_high[i]
                 /\ e.p75_high[i] < e.p90_high[i]
                 /\ e.record_low[i] < e.p25_low[i]
           /\ \E md \in MDKeys :
                 /\ ~Contains(e.dates, md)
                 /\ Cardinality(PointsOfDay(HistYears, md)) \in 1..(MinEnvelopeSamples - 1)

-----------------------------------------------------------------------------
MaxHighOf(P) == CHOOSE v \in { HighAt(p) : p \in P } : \A p \in P : HighAt(p) <= v
MinLowOf(P) == CHOOSE v \in { LowAt(p) : p \in P } : \A p \in P : v <= LowAt(p)
EarliestYear(P) == CHOOSE y \in { YearAt(p) : p \in P } : \A p \in P : y <= YearAt(p)

MonthRecordOK(stat, P) ==
    /\ stat.record_high = Some(MaxHighOf(P))
    /\ stat.record_high_year = Some(EarliestYear({ p \in P : HighAt(p) = MaxHighOf(P) }))
    /\ stat.record_low = Some(MinLowOf(P))
    /\ stat.record_low_year = Some(EarliestYear({ p \in P : LowAt(p) = MinLowOf(P) }))

\* C5: per month, record_high and record_high_year are the maximum of the
\* historical valid highs (days with both values) and the earliest year it
\* occurred; record_low and record_low_year likewise with the minimum valid low.
C5_MonthlyRecords ==
    output # None =>
        \A m \in Months :
            PointsOfMonth(m) # {} =>
                MonthRecordOK(output[1].monthly[MONTH_NAMES[m]], PointsOfMonth(m))

\* C6: a month without any historical valid day has null normals, null records
\* and null departures.
C6_EmptyMonthIsNull ==
    output # None =>
        \A m \in Months :
            PointsOfMonth(m) = {} =>
                LET stat == output[1].monthly[MONTH_NAMES[m]]
                IN  /\ stat.normal_high = None
                    /\ stat.normal_low = None
                    /\ stat.record_high = None
                    /\ stat.record_low = None
                    /\ stat.departure_high = None
                    /\ stat.departure_low = None

CurrentValidDays ==
    { i \in 1..Len(current_data[1].dates) :
        current_data[1].high[i] # None /\ current_data[1].low[i] # None }

RECURSIVE SumCurrentHighs(_)
SumCurrentHighs(D) ==
    IF D = {} THEN 0
    ELSE LET i == CHOOSE j \in D : TRUE IN current_data[1].high[i][1] + SumCurrentHighs(D \ {i})

\* C7: ytd_avg_high is the mean of the highs of the valid days of the current
\* year (both values present), and null when there is no valid day.
C7_YtdAvgHigh ==
    output # None =>
        LET avg == output[1].summary.ytd_avg_high
        IN  IF CurrentValidDays = {} THEN avg = None
            ELSE /\ avg # None
                 /\ IsRoundedMean(avg[1], SumCurrentHighs(CurrentValidDays),
                                  Cardinality(CurrentValidDays))

ScenarioLows == <<Some(20 * Scale), Some(32 * Scale), Some(33 * Scale), None, Some(31 * Scale)>>

\* C8: days_below_freezing counts the days whose low is present and <= 32,
\* days_above_90 the days whose high is present and >= 90; the lows
\* [20, 32, 33, None, 31] count 3.
C8_ThresholdCounts ==
    output # None =>
        LET cur == current_data[1]
            sm == output[1].summary
        IN  /\ sm.days_below_freezing =
                 Cardinality({ i \in 1..Len(cur.low) : cur.low[i] # None /\ cur.low[i][1] <= Freezing })
            /\ sm.days_above_90 =
                 Cardinality({ i \in 1..Len(cur.high) : cur.high[i] # None /\ cur.high[i][1] >= Hot })
            /\ cur.low = ScenarioLows => sm.days_below_freezing = 3

\* The scenario series: a low of exactly 32 and a missing low, and a high of exactly 90.
C8_Witness ==
    /\ output # None
    /\ current_data[1].low = ScenarioLows
    /\ \E i \in 1..Len(current_data[1].high) : current_data[1].high[i] = Some(Hot)
    /\ output[1].summary.days_below_freezing = 3
    /\ output[1].summary.days_above_90 = 2

-----------------------------------------------------------------------------
AllAbsent(data) == \A i \in 1..Len(data.dates) : data.high[i] = None /\ data.low[i] = None

RemoveAt(xs, k) == SubSeq(xs, 1, k - 1) \o SubSeq(xs, k + 1, Len(xs))

\* all_daily after the historical loop has stored exactly the items of hist.
RECURSIVE PoolItems(_, _, _)
PoolItems(daily, hist, k) ==
    IF k > Len(hist) THEN daily
    ELSE PoolItems(PoolDays(daily, hist[k].data, 1), hist, k + 1)

RecordFields == {"normal_high", "normal_low", "record_high", "record_high_year",
                 "record_low", "record_low_year"}

HistoricalPart(stat) == [f \in RecordFields |-> stat[f]]

\* The statistics of doc are those of the run in which item k was never stored.
SameWithoutYear(doc, k) ==
    LET hist == RemoveAt(historical, k)
        daily == PoolItems([md \in MDKeys |-> EmptyPool], hist, 1)
        monthly == Monthly(hist, current_data[1])
    IN  /\ doc.normals = DailyMeans(daily)
        /\ doc.trailing_avg = DailyMeans(trailing_daily(hist))
        /\ doc.historical_envelope = Envelope(daily)
        /\ \A name \in MonthNameSet :
              HistoricalPart(doc.monthly[name]) = HistoricalPart(monthly[name])

AbsentItems == { k \in 1..Len(historical) : AllAbsent(historical[k].data) }

\* C9: a fetched historical year whose every high and low is absent leaves
\* normals, trailing average, envelope, monthly normals and monthly records as
\* they are when that year's fetch returns no data, and the run goes on to
\* write the document.
C9_AbsentYearIsNoData ==
    /\ output # None => \A k \in AbsentItems : SameWithoutYear(output[1], k)
    /\ AbsentItems # {} /\ current_data # None => pc \in {"aggregate", "write", "done"}
    /\ pc = "write" => output # None /\ writes = 0
    /\ pc = "done" => writes = 1 /\ data_js = output /\ exit_code = Some(0)

\* The document is written in a run with an all-absent year inside the
\* trailing window next to years with data.
C9_Witness ==
    /\ pc = "done"
    /\ writes = 1
    /\ \E k \in AbsentItems : historical[k].yr \in LastYears
    /\ Len(data_js[1].normals.dates) > 0
    /\ Len(data_js[1].trailing_avg.dates) > 0

ShortNames == <<"Jan", "Feb", "Mar", "Apr", "May", "Jun", "Jul", "Aug", "Sep", "Oct", "Nov", "Dec">>

\* C10: the three anomalies sequences have one length, list in calendar order
\* exactly the months whose departure_high is non-null, and hold no null
\* low_departure: departure_low is non-null whenever departure_high is.
C10_Anomalies ==
    output # None =>
        LET a == output[1].anomalies
            stat(m) == output[1].monthly[MONTH_NAMES[m]]
            kept == { m \in Months : stat(m).departure_high # None }
        IN  /\ Len(a.months) = Cardinality(kept)
            /\ Len(a.high_departure) = Len(a.months)
            /\ Len(a.low_departure) = Len(a.months)
            /\ \A m \in kept :
                  LET i == Cardinality({ n \in kept : n <= m })
                  IN  /\ a.months[i] = ShortNames[m]
                      /\ a.high_departure[i] = stat(m).departure_high
                      /\ a.low_departure[i] = stat(m).departure_low
            /\ \A i \in 1..Len(a.low_departure) : a.low_departure[i] # None
            /\ \A m \in Months : stat(m).departure_high # None => stat(m).departure_low # None

\* January and February have departures while March, which has current-year
\* highs, has none.
C10_Witness ==
    /\ output # None
    /\ output[1].anomalies.months = <<"Jan", "Feb">>
    /\ \E i \in 1..Len(current_data[1].dates) :
          current_data[1].dates[i][2] = 3 /\ current_data[1].high[i] # None

====
